---- MODULE Spec2Model ----
(***************************************************************************)
(* Model of store/app/api/token.py: the JWT codec (create_token,           *)
(* load_token) and the refresh-token manager (create_refresh_token,        *)
(* load_refresh_token), together with the behaviour of the calls they      *)
(* delegate to: jwt.encode / jwt.decode (PyJWT 2.x, HMAC family),          *)
(* server_time(), settings.crypto and crud.add_token.                      *)
(*                                                                         *)
(* Time is counted in clock ticks; TicksPerSec ticks make one second, so   *)
(* that the sub-second part of a datetime (which jwt.encode drops when it  *)
(* turns "exp" into a Unix timestamp) is visible.                          *)
(***************************************************************************)
EXTENDS Integers, Sequences, FiniteSets, TLC

\* ------------------------------------------------------------------ bounds
TicksPerSec == 2
MaxTime == 6
MaxDb == 1

StartTime == TicksPerSec

\* ------------------------------------------------------- python values
\* One record shape for every value so that any two values compare.
\*   t = "int"      : n is the integer (for a timestamp claim: seconds)
\*   t = "str"      : s is the string
\*   t = "tuple"    : xs are the items      t = "list" : xs are the items
\*   t = "datetime" : n is the instant in clock ticks
\*   t = "absent"   : the key is not in the mapping
PyInt(n) == [t |-> "int", n |-> n, s |-> "", xs |-> <<>>]
PyStr(s) == [t |-> "str", n |-> 0, s |-> s, xs |-> <<>>]
PyTuple(xs) == [t |-> "tuple", n |-> 0, s |-> "", xs |-> xs]
PyList(xs) == [t |-> "list", n |-> 0, s |-> "", xs |-> xs]
PyDatetime(n) == [t |-> "datetime", n |-> n, s |-> "", xs |-> <<>>]
Absent == [t |-> "absent", n |-> 0, s |-> "", xs |-> <<>>]

Keys == {"exp", "eml", "aud", "nbf", "uid"}

\* A dict is a function on Keys; a key maps to Absent when it is not in it.
EmptyDict == [k \in Keys |-> Absent]
Has(d, k) == d[k] # Absent
Dict1(k, v) == [EmptyDict EXCEPT ![k] = v]
Dict2(k1, v1, k2, v2) == [EmptyDict EXCEPT ![k1] = v1, ![k2] = v2]

\* ------------------------------------------------------------- settings
\* settings.crypto.jwt_secret and the key an outsider would sign with.
jwt_secret == "server-secret"
OtherSecret == "attacker-secret"

\* settings.crypto.algorithm is static configuration: one of the HMAC
\* algorithms, fixed when the process starts.
Algorithms == {"HS256", "HS384", "HS512"}

\* Width of the digest in bits, scaled down from 256/384/512 so that the
\* number of unused low bits in the last base64url character is the real
\* one (2, 0, 4).
DigestBits(a) ==
  CASE a = "HS256" -> 16
    [] a = "HS384" -> 18
    [] a = "HS512" -> 20
    [] OTHER -> 0

Pow2(n) == 2 ^ n

\* ------------------------------------------------------------ base64url
CharBits == 6
NumChars(bits) == (bits + CharBits - 1) \div CharBits
PadBits(bits) == NumChars(bits) * CharBits - bits

\* base64url without "=": the digest, left-aligned, cut in 6-bit characters.
base64url_encode(d, bits) ==
  LET v == d * Pow2(PadBits(bits))
      n == NumChars(bits)
  IN [i \in 1..n |-> (v \div Pow2(CharBits * (n - i))) % Pow2(CharBits)]

RECURSIVE CharsValue(_)
CharsValue(cs) ==
  IF cs = <<>> THEN 0
  ELSE CharsValue(SubSeq(cs, 1, Len(cs) - 1)) * Pow2(CharBits) + cs[Len(cs)]

\* base64.urlsafe_b64decode is lenient: the bits of the last character that
\* do not belong to a whole byte are discarded, whatever they are.
\* A segment of the wrong length does not decode to a digest (-1).
base64url_decode(cs, bits) ==
  IF Len(cs) # NumChars(bits) THEN -1
  ELSE CharsValue(cs) \div Pow2(PadBits(bits))

\* ----------------------------------------------------------------- HMAC
StrCode(s) ==
  CASE s = "a@example.com" -> 1
    [] s = "b@example.com" -> 2
    [] s = "web" -> 3
    [] OTHER -> 4

ValCode(v) ==
  CASE v.t = "absent" -> 0
    [] v.t = "int" -> 1 + (v.n % 6)
    [] v.t = "str" -> StrCode(v.s)
    [] OTHER -> 7

KeyOrder == <<"exp", "eml", "aud", "nbf", "uid">>

RECURSIVE BodyCode(_, _)
BodyCode(body, i) ==
  IF i > Len(KeyOrder) THEN 0
  ELSE ValCode(body[KeyOrder[i]]) + 8 * BodyCode(body, i + 1)

KeyCode(key) == IF key = jwt_secret THEN 11 ELSE 23

\* The keyed digest of the signing input (header and claims segments): a
\* function of key, algorithm and claims that is injective on the inputs
\* used here, as HMAC is for all practical purposes.
hmac_digest(key, a, body) ==
  (BodyCode(body, 1) * 37 + KeyCode(key) * 101 + DigestBits(a)) % Pow2(DigestBits(a))

\* ------------------------------------------------------------------ JWT
\* A token string: segs dot-separated segments; hdr is the "alg" of the
\* header segment, body the JSON object of the claims segment, sig the
\* characters of the signature segment.
NoToken == [segs |-> 0, hdr |-> "", body |-> EmptyDict, sig |-> <<>>]

\* json.dumps then json.loads of one value: a tuple comes back as a list.
JsonValue(v) == IF v.t = "tuple" THEN PyList(v.xs) ELSE v

\* jwt.encode turns a datetime under a time claim into whole seconds
\* (timegm(utctimetuple())), dropping the sub-second part.
TimeClaims == {"exp", "nbf"}
EncodeClaim(k, v) ==
  IF k \in TimeClaims /\ v.t = "datetime" THEN PyInt(v.n \div TicksPerSec)
  ELSE JsonValue(v)

jwt_encode(payload, key, a) ==
  LET body == [k \in Keys |-> EncodeClaim(k, payload[k])]
  IN [segs |-> 3, hdr |-> a, body |-> body,
      sig |-> base64url_encode(hmac_digest(key, a, body), DigestBits(a))]

\* jwt.decode(token, key, algorithms=[a]) at clock reading t (ticks).
\* err names the exception PyJWT raises; "" when it returns the claims.
jwt_decode_err(tok, key, a, t) ==
  IF tok.segs # 3 THEN "DecodeError"
  ELSE IF tok.hdr # a THEN "InvalidAlgorithmError"
  ELSE IF base64url_decode(tok.sig, DigestBits(a)) # hmac_digest(key, a, tok.body)
    THEN "InvalidSignatureError"
  ELSE IF Has(tok.body, "nbf") /\ tok.body["nbf"].t # "int" THEN "DecodeError"
  ELSE IF Has(tok.body, "nbf") /\ tok.body["nbf"].n * TicksPerSec > t
    THEN "ImmatureSignatureError"
  ELSE IF Has(tok.body, "exp") /\ tok.body["exp"].t # "int" THEN "DecodeError"
  ELSE IF Has(tok.body, "exp") /\ tok.body["exp"].n * TicksPerSec <= t
    THEN "ExpiredSignatureError"
  ELSE IF Has(tok.body, "aud") THEN "InvalidAudienceError"
  ELSE ""

jwt_decode(tok, key, a, t) ==
  LET e == jwt_decode_err(tok, key, a, t)
  IN [err |-> e, claims |-> IF e = "" THEN tok.body ELSE EmptyDict]

\* ------------------------------------------------------ collaborators
\* An optional timedelta, in clock ticks.
NoTTL == [some |-> FALSE, d |-> 0]
TTL(d) == [some |-> TRUE, d |-> d]

\* What a call hands back to its caller: kind is "ok" or the exception
\* class; status/detail are those of an HTTPException; claims, token and
\* ret are the returned dict, token string or value; data is the caller's
\* mapping as the call leaves it; signed counts the jwt.encode calls made.
NoResult ==
  [kind |-> "none", status |-> 0, detail |-> "", claims |-> EmptyDict,
   token |-> NoToken, ret |-> Absent, data |-> EmptyDict, signed |-> 0]

HTTP_401_UNAUTHORIZED == 401

Unauthorized ==
  [NoResult EXCEPT !.kind = "HTTPException", !.status = HTTP_401_UNAUTHORIZED,
                   !.detail = "Invalid token"]

\* ------------------------------------------------------------ token.py
\* create_token without the reserved-key check.
create_token_nocheck(data, expire_after, a, t) ==
  LET expires == PyDatetime(t + expire_after.d)
      to_encode == IF expire_after.some
                   THEN [data EXCEPT !["exp"] = expires]
                   ELSE data
  IN [NoResult EXCEPT !.kind = "ok", !.data = data, !.signed = 1,
                      !.token = jwt_encode(to_encode, jwt_secret, a)]

\* create_token that takes expire_after as the expiry itself.
create_token_noclock(data, expire_after, a, t) ==
  IF Has(data, "exp")
  THEN [NoResult EXCEPT !.kind = "ValueError", !.data = data]
  ELSE LET expires == PyDatetime(expire_after.d)
           to_encode == IF expire_after.some
                        THEN [data EXCEPT !["exp"] = expires]
                        ELSE data
       IN [NoResult EXCEPT !.kind = "ok", !.data = data, !.signed = 1,
                           !.token = jwt_encode(to_encode, jwt_secret, a)]

create_token(data, expire_after, a, t) ==
  IF Has(data, "exp")
  THEN [NoResult EXCEPT !.kind = "ValueError", !.data = data]
  ELSE LET expires == PyDatetime(t + expire_after.d)
           to_encode == IF expire_after.some
                        THEN [data EXCEPT !["exp"] = expires]
                        ELSE data
       IN [NoResult EXCEPT !.kind = "ok", !.data = data, !.signed = 1,
                           !.token = jwt_encode(to_encode, jwt_secret, a)]

\* load_token that reads the claims without verifying the signature.
load_token_noverify(payload, a, t) ==
  LET r == jwt_decode(payload, jwt_secret, a, t)
  IN IF r.err \notin {"", "InvalidSignatureError"} THEN Unauthorized
     ELSE [NoResult EXCEPT !.kind = "ok", !.claims = payload.body]

\* load_token that reports the cause of the failure in the detail.
load_token_leaky(payload, a, t) ==
  LET r == jwt_decode(payload, jwt_secret, a, t)
  IN IF r.err # "" THEN [Unauthorized EXCEPT !.detail = r.err]
     ELSE [NoResult EXCEPT !.kind = "ok", !.claims = r.claims]

load_token(payload, a, t) ==
  LET r == jwt_decode(payload, jwt_secret, a, t)
  IN IF r.err # "" THEN Unauthorized
     ELSE [NoResult EXCEPT !.kind = "ok", !.claims = r.claims]

\* The part of create_refresh_token after "await crud.add_token(token)":
\* added tells whether the awaited call returned or raised.
\* create_refresh_token that stores the email under another key.
create_refresh_token_wrongkey(email, added, a, t) ==
  IF ~added THEN [NoResult EXCEPT !.kind = "CrudError"]
  ELSE create_token(Dict1("uid", PyStr(email)), NoTTL, a, t)

\* create_refresh_token that swallows the failure of add_token.
create_refresh_token_swallow(email, added, a, t) ==
  create_token(Dict1("eml", PyStr(email)), NoTTL, a, t)

\* create_refresh_token that gives the token a time to live.
create_refresh_token_expiring(email, added, a, t) ==
  IF ~added THEN [NoResult EXCEPT !.kind = "CrudError"]
  ELSE create_token(Dict1("eml", PyStr(email)), TTL(1), a, t)

create_refresh_token(email, added, a, t) ==
  IF ~added THEN [NoResult EXCEPT !.kind = "CrudError"]
  ELSE create_token(Dict1("eml", PyStr(email)), NoTTL, a, t)

load_refresh_token(payload, a, t) ==
  LET r == load_token(payload, a, t)
  IN IF r.kind # "ok" THEN r
     ELSE IF ~Has(r.claims, "eml") THEN [NoResult EXCEPT !.kind = "KeyError"]
     ELSE [NoResult EXCEPT !.kind = "ok", !.ret = r.claims["eml"]]

\* ---------------------------------------------------------------- state
VARIABLES
  now,        \* the clock, in ticks (server_time() and PyJWT read the same clock)
  algorithm,  \* settings.crypto.algorithm
  held,       \* the token most recently issued, with how it was made
  last,       \* the call completed at the present clock reading, if any:
              \* its inputs and its result
  req,        \* the create_refresh_token coroutine: idle or awaiting add_token
  db          \* the Token records crud.add_token has persisted

vars == <<now, algorithm, held, last, req, db>>

NoHeld ==
  [by |-> "none", tok |-> NoToken, data |-> EmptyDict, ttl |-> NoTTL,
   email |-> "", t |-> 0]

NoLast ==
  [op |-> "none", data |-> EmptyDict, ttl |-> NoTTL, payload |-> NoToken,
   email |-> "", calls |-> <<>>, res |-> NoResult]

IdleReq == [pc |-> "idle", email |-> "", calls |-> <<>>]

Init ==
  /\ now = StartTime
  /\ algorithm \in Algorithms
  /\ held = NoHeld
  /\ last = NoLast
  /\ req = IdleReq
  /\ db = <<>>

\* --------------------------------------------------------------- inputs
Emails == {"a@example.com", "b@example.com"}

DataInputs ==
  { EmptyDict,
    Dict1("uid", PyInt(1)),
    Dict1("uid", PyTuple(<<1, 2>>)),
    Dict1("eml", PyStr("a@example.com")),
    Dict1("aud", PyStr("web")),
    Dict1("nbf", PyInt(2)),
    Dict1("exp", PyInt(123)),
    Dict2("exp", PyInt(123), "uid", PyInt(1)) }

TTLInputs == { NoTTL, TTL(-TicksPerSec), TTL(TicksPerSec + 1) }

\* create_token calls that issue tokens which are not refresh tokens.
ForeignInputs ==
  { <<Dict1("uid", PyInt(1)), NoTTL>>,
    <<Dict1("aud", PyStr("web")), NoTTL>>,
    <<Dict1("uid", PyInt(1)), TTL(1)>> }

FlipBit(c, b) == IF (c \div Pow2(b)) % 2 = 1 THEN c - Pow2(b) ELSE c + Pow2(b)

\* The token with the character at pos of its signature replaced by ch.
TamperSig(tok, pos, ch) == [tok EXCEPT !.sig[pos] = ch]

\* The replacements tried: the character with one of these bits flipped.
FlippedBits == {0, 1, 3, 5}

Tampered(tok) ==
  { TamperSig(tok, pos, FlipBit(tok.sig[pos], b)) : pos \in DOMAIN tok.sig, b \in FlippedBits }

\* Strings nobody issued: a truncated token, a token signed with another
\* key, an unsigned "none" token, and the issued token with altered claims.
Derived(tok) ==
  { [tok EXCEPT !.segs = 2, !.sig = <<>>],
    [tok EXCEPT !.hdr = "none", !.sig = <<>>],
    [tok EXCEPT !.body["uid"] = PyInt(2)] }

Forged(a) ==
  { jwt_encode(Dict1("eml", PyStr("b@example.com")), OtherSecret, a),
    [NoToken EXCEPT !.segs = 1] }

Payloads ==
  Forged(algorithm) \cup
  (IF held.by = "none" THEN {}
   ELSE {held.tok} \cup Tampered(held.tok) \cup Derived(held.tok))

\* -------------------------------------------------------------- actions
Tick ==
  /\ now < MaxTime
  /\ now' = now + 1
  /\ last' = NoLast
  /\ UNCHANGED <<algorithm, held, req, db>>

CreateToken(data, ttl) ==
  LET r == create_token(data, ttl, algorithm, now)
  IN /\ last' = [NoLast EXCEPT !.op = "create_token", !.data = data, !.ttl = ttl,
                               !.res = r]
     /\ held' = IF r.kind = "ok"
                THEN [by |-> "create_token", tok |-> r.token, data |-> data,
                      ttl |-> ttl, email |-> "", t |-> now]
                ELSE held
     /\ UNCHANGED <<now, algorithm, req, db>>

LoadToken(payload) ==
  /\ last' = [NoLast EXCEPT !.op = "load_token", !.payload = payload,
                            !.res = load_token(payload, algorithm, now)]
  /\ UNCHANGED <<now, algorithm, held, req, db>>

\* create_refresh_token up to its await: the Token record is built and
\* crud.add_token is called with it.
CreateRefreshTokenCall(email) ==
  /\ req.pc = "idle"
  /\ Len(db) < MaxDb
  /\ req' = [pc |-> "awaiting", email |-> email,
             calls |-> Append(req.calls, [email |-> email])]
  /\ UNCHANGED <<now, algorithm, held, last, db>>

\* crud.add_token returns (the record is stored) or raises (it is not);
\* create_refresh_token then runs to its end.
CreateRefreshTokenResume(added) ==
  /\ req.pc = "awaiting"
  /\ LET r == create_refresh_token(req.email, added, algorithm, now)
     IN /\ last' = [NoLast EXCEPT !.op = "create_refresh_token", !.email = req.email,
                                  !.calls = req.calls, !.res = r]
        /\ held' = IF r.kind = "ok"
                   THEN [by |-> "create_refresh_token", tok |-> r.token,
                         data |-> EmptyDict, ttl |-> NoTTL, email |-> req.email,
                         t |-> now]
                   ELSE held
  /\ db' = IF added THEN Append(db, req.calls[Len(req.calls)]) ELSE db
  /\ req' = IdleReq
  /\ UNCHANGED <<now, algorithm>>

LoadRefreshToken(payload) ==
  /\ last' = [NoLast EXCEPT !.op = "load_refresh_token", !.payload = payload,
                            !.res = load_refresh_token(payload, algorithm, now)]
  /\ UNCHANGED <<now, algorithm, held, req, db>>

\* ------------------------------------------------------- specifications
\* The codec alone.
Next ==
  \/ Tick
  \/ \E data \in DataInputs, ttl \in TTLInputs : CreateToken(data, ttl)
  \/ \E payload \in Payloads : LoadToken(payload)

Spec == Init /\ [][Next]_vars

\* The refresh-token manager, with tokens of other origin in play.
NextRefresh ==
  \/ Tick
  \/ \E email \in Emails : CreateRefreshTokenCall(email)
  \/ \E added \in BOOLEAN : CreateRefreshTokenResume(added)
  \/ \E call \in ForeignInputs : CreateToken(call[1], call[2])
  \/ \E payload \in Payloads : LoadRefreshToken(payload)

SpecRefresh == Init /\ [][NextRefresh]_vars

TypeOK ==
  /\ now \in StartTime..MaxTime
  /\ algorithm \in Algorithms
  /\ req.pc \in {"idle", "awaiting"}
  /\ Len(db) <= MaxDb

\* ------------------------------------------------------------- claims
\* The call just completed is a load of the held token as it was issued.
LoadedHeld(op) == last.op = op /\ held.by # "none" /\ last.payload = held.tok

\* The expiry of the held token, in ticks: server time at issue plus ttl.
Expiry == held.t + held.ttl.d

\* p is tok with exactly one character of the signature segment replaced.
OneSigCharReplaced(p, tok) ==
  /\ p.segs = tok.segs /\ p.hdr = tok.hdr /\ p.body = tok.body
  /\ Len(p.sig) = Len(tok.sig)
  /\ Cardinality({i \in DOMAIN tok.sig : p.sig[i] # tok.sig[i]}) = 1

\* The replaced character differs in bits that belong to the signature's
\* bytes: any position but the last, or the last when more than the unused
\* low bits changed.
ChangesDigest(p, tok) ==
  \E i \in DOMAIN tok.sig :
    /\ p.sig[i] # tok.sig[i]
    /\ \/ i < Len(tok.sig)
       \/ p.sig[i] \div Pow2(PadBits(DigestBits(algorithm)))
            # tok.sig[i] \div Pow2(PadBits(DigestBits(algorithm)))

\* p carries the signature of its own claims under the server's key and
\* algorithm, and is not past its expiration.
ValidlySigned(p) ==
  /\ p.segs = 3 /\ p.hdr = algorithm
  /\ base64url_decode(p.sig, DigestBits(algorithm)) = hmac_digest(jwt_secret, algorithm, p.body)
Unexpired(p) == ~Has(p.body, "exp") \/ p.body["exp"].n * TicksPerSec > now

\* C1: a token made by create_token(C) with no "exp" in C and no ttl is made
\* without error, and load_token on it returns a mapping equal to C, at any
\* time.
C1_RoundTrip ==
  /\ (last.op = "create_token" /\ ~Has(last.data, "exp") /\ ~last.ttl.some)
       => last.res.kind = "ok"
  /\ (LoadedHeld("load_token") /\ held.by = "create_token" /\ ~held.ttl.some)
       => (last.res.kind = "ok" /\ last.res.claims = held.data)

\* C2 as stated: a token made with a ttl at time t carries the expiry
\* t + ttl, and load_token on it at any time past t + ttl is Unauthorized.
C2_Expiration_Original ==
  (held.by = "create_token" /\ held.ttl.some) =>
    /\ held.tok.body["exp"].n * TicksPerSec = Expiry
    /\ (LoadedHeld("load_token") /\ now > Expiry) => last.res = Unauthorized

\* C2 amended: a token made with a ttl at time t carries as expiry t + ttl
\* cut to whole seconds, and load_token on it at any time past t + ttl is
\* Unauthorized (status 401); with a ttl of -1 second it is so at once.
C2_Expiration ==
  (held.by = "create_token" /\ held.ttl.some) =>
    /\ held.tok.body["exp"] = PyInt(Expiry \div TicksPerSec)
    /\ (LoadedHeld("load_token") /\ now > Expiry) => last.res = Unauthorized
    /\ (LoadedHeld("load_token") /\ held.ttl.d = -TicksPerSec) => last.res = Unauthorized

C2_Witness ==
  /\ LoadedHeld("load_token") /\ held.by = "create_token" /\ held.ttl.some
  /\ now > Expiry /\ now > held.t
  /\ last.res = Unauthorized

C4_ReservedKey ==
  (last.op = "create_token" /\ Has(last.data, "exp")) =>
    /\ last.res.kind = "ValueError"
    /\ last.res.signed = 0
    /\ last.res.token = NoToken
    /\ last.res.data = last.data

C4_Witness ==
  /\ last.op = "create_token" /\ Has(last.data, "exp") /\ last.ttl.some
  /\ last.res.kind = "ValueError" /\ held.by = "none"

\* C5: when add_token succeeds, create_refresh_token(e) has made exactly one
\* add_token call, with a record carrying e, and load_refresh_token on the
\* token it returned gives back e.
C5_RefreshRoundTrip ==
  /\ (last.op = "create_refresh_token" /\ last.res.kind = "ok")
       => (last.calls = <<[email |-> last.email]>> /\ held.email = last.email)
  /\ (LoadedHeld("load_refresh_token") /\ held.by = "create_refresh_token")
       => (last.res.kind = "ok" /\ last.res.ret = PyStr(held.email))

C5_Witness ==
  /\ LoadedHeld("load_refresh_token") /\ held.by = "create_refresh_token"
  /\ held.email = "a@example.com" /\ db = <<[email |-> "a@example.com"]>>
  /\ last.res.ret = PyStr("a@example.com")

\* C6: load_token either returns the claims of a token that passes every
\* check, or raises the one Unauthorized error (401, "Invalid token")
\* whatever the cause of the failure.
C6_UniformFailure ==
  last.op = "load_token" =>
    \/ last.res = Unauthorized
    \/ /\ last.res.kind = "ok"
       /\ ValidlySigned(last.payload) /\ Unexpired(last.payload)
       /\ last.res.claims = last.payload.body

C6_Witness ==
  /\ LoadedHeld("load_token")
  /\ ValidlySigned(last.payload) /\ ~Unexpired(last.payload)
  /\ last.res.status = HTTP_401_UNAUTHORIZED /\ last.res.detail = "Invalid token"

\* C7: load_refresh_token raises KeyError on a validly signed, unexpired
\* token without "eml", and Unauthorized on a token that fails verification.
C7_ForeignToken ==
  last.op = "load_refresh_token" =>
    /\ (ValidlySigned(last.payload) /\ Unexpired(last.payload) /\ ~Has(last.payload.body, "eml"))
         => last.res.kind = "KeyError"
    /\ (~ValidlySigned(last.payload) \/ ~Unexpired(last.payload))
         => last.res = Unauthorized

\* C8: a refresh token is returned only after its email's record has been
\* persisted; when add_token fails the failure reaches the caller, nothing
\* is signed or returned, and add_token was called once.
C8_IssuanceOrder ==
  /\ held.by = "create_refresh_token" => \E i \in DOMAIN db : db[i].email = held.email
  /\ (last.op = "create_refresh_token" /\ last.res.kind = "ok")
       => (db # <<>> /\ db[Len(db)].email = last.email)
  /\ (last.op = "create_refresh_token" /\ last.res.kind # "ok")
       => /\ last.res.kind = "CrudError"
          /\ last.res.token = NoToken /\ last.res.signed = 0
          /\ Len(last.calls) = 1
  /\ req.pc = "awaiting" => req.calls = <<[email |-> req.email]>>

C8_Witness ==
  /\ last.op = "create_refresh_token" /\ last.res.kind = "CrudError"
  /\ last.email = "b@example.com" /\ db = <<>> /\ held.by = "none"

\* C9: load_token on a token made with a ttl, at a time before its expiry
\* t + ttl, returns the claims given plus "exp" holding that expiry.
C9_DecodeWithTTL ==
  (/\ LoadedHeld("load_token") /\ held.by = "create_token" /\ held.ttl.some
   /\ now < Expiry)
    => /\ last.res.kind = "ok"
       /\ \A k \in Keys \ {"exp"} : last.res.claims[k] = held.data[k]
       /\ last.res.claims["exp"].t = "int"
       /\ last.res.claims["exp"].n * TicksPerSec = Expiry

\* C10: a refresh token carries the one claim "eml" and no "exp", and
\* load_refresh_token on it returns the email however far the clock has
\* advanced.
C10_NeverExpires ==
  held.by = "create_refresh_token" =>
    /\ held.tok.body = Dict1("eml", PyStr(held.email))
    /\ ~Has(held.tok.body, "exp")
    /\ LoadedHeld("load_refresh_token") => last.res.ret = PyStr(held.email)

C10_Witness ==
  /\ LoadedHeld("load_refresh_token") /\ held.by = "create_refresh_token"
  /\ now = MaxTime /\ held.t = StartTime
  /\ last.res.kind = "ok"

====
